---- MODULE Spec2Model ----
(***************************************************************************)
(* Librarity: book ingestion (upload -> Celery process_book_task ->        *)
(* Qdrant collection) and chat (chat_with_book -> RAG pipeline -> token    *)
(* accounting).                                                            *)
(*                                                                         *)
(* Spec        : the ingestion side (books, Celery queue, task runs,       *)
(*               Qdrant)                                                   *)
(* SpecRetry   : ingestion of one file, every retry followed to the end    *)
(* SpecInput   : ingestion of a file with an upper-case extension          *)
(* SpecUpload  : ingestion with overlapping upload requests                *)
(* SpecDelete  : ingestion with delete_book                                *)
(* SpecChat    : the chat side (requests, Chat rows, Subscription tokens)  *)
(* SpecHistory : chat on a session that already holds exchanges            *)
(***************************************************************************)
EXTENDS Integers, Sequences, FiniteSets, Bags, TLC

VARIABLES
  books,        \* books table: book id -> row, or NoBook
  nextBook,     \* next unused book id (ids are fresh uuids, never reused)
  uploads,      \* bag of the upload_book requests that found no Book for
                \* their file and have not added theirs yet
  queue,        \* Celery broker: bag of process_book_task messages
  runs,         \* bag of the executions of process_book_task under way
  collections,  \* Qdrant: book id -> collection book_<id>: the bag of the
                \* chunk_index payloads of its points, or NoCollection
  nEnqueued,    \* number of .delay() calls so far (bounded)
  nReprocess,   \* number of admin reprocess requests so far (bounded)
  nRuns,        \* number of task executions started so far (bounded)
  taskResult,   \* Celery result backend: how the execution that ended last
                \* ended
  subs,         \* subscriptions table: user -> tokens_used, or NoSub
  chats,        \* chats table, in created_at order
  usage,        \* token_usage table, in created_at order
  reqs,         \* chat request slot -> the request it is serving
  response,     \* the response that chat_with_book returned last
  nReqs         \* number of chat requests started so far (bounded)

vars == <<books, nextBook, uploads, queue, runs, collections, nEnqueued, nReprocess,
          nRuns, taskResult, subs, chats, usage, reqs, response, nReqs>>

ingestVars == <<books, nextBook, uploads, queue, runs, collections, nEnqueued,
                nReprocess, nRuns, taskResult>>
chatVars == <<subs, chats, usage, reqs, response, nReqs>>

(***************************************************************************)
(* Bounds of the model                                                     *)
(***************************************************************************)
MaxBooks == 2        \* book rows ever created
MaxEnqueue == 2      \* process_book_task.delay() calls
MaxReprocess == 1    \* admin reprocess requests
MaxRuns == 2         \* executions of process_book_task
MaxRetryRuns == 4    \* executions of process_book_task where retries are
                     \* followed to the end
NumWorkers == 2      \* Celery worker processes
NumSlots == 2        \* chat requests served at the same time
MaxReqs == 2         \* chat requests ever started
MaxStored == 11      \* exchanges a session holds before the first request

(***************************************************************************)
(* Program constants                                                       *)
(***************************************************************************)
max_retries == 3     \* @celery_app.task(bind=True, max_retries=3)
batch_size == 100    \* process_and_embed_book: batch_size = 100

Users == {"u1", "u2"}
Uploaders == {"u1"}   \* the users who upload in the ingestion specification
FileHashes == {"h1", "h2"}
BookIds == 1..MaxBooks

Slots == 1..NumSlots
NoBook == [absent |-> TRUE]
NoRequest == [pc |-> "none"]
NoResponse == [outcome |-> "none"]
NoCollection == [exists |-> FALSE, points |-> EmptyBag]
NoResult == [state |-> "none"]

\* Number of chunks the text splitter yields for the text of each file: a
\* short book, and one whose points need two upsert batches.
NumChunks(h) == IF h = "h1" THEN 2 ELSE batch_size + 1

\* Chunk indices whose embedding may raise in a run.
EmbedFailSets == {{}, {0}, {1}, {0, 1}}

Min(a, b) == IF a < b THEN a ELSE b

UpperCase == <<"A", "B", "C", "D", "E", "F", "G", "H", "I", "J", "K", "L", "M",
               "N", "O", "P", "Q", "R", "S", "T", "U", "V", "W", "X", "Y", "Z">>
LowerCase == <<"a", "b", "c", "d", "e", "f", "g", "h", "i", "j", "k", "l", "m",
               "n", "o", "p", "q", "r", "s", "t", "u", "v", "w", "x", "y", "z">>

\* str.lower()
LowerChar(c) ==
  IF \E i \in 1..26 : UpperCase[i] = c
    THEN LowerCase[CHOOSE i \in 1..26 : UpperCase[i] = c]
    ELSE c
Lower(m) == [i \in 1..Len(m) |-> LowerChar(m[i])]

\* The extension of the name under which the client sends each file:
\* "book.pdf", and for h3 "BOOK.PDF".
pdf == <<"p", "d", "f">>
FileExt(h) == IF h = "h3" THEN <<"P", "D", "F">> ELSE pdf

(***************************************************************************)
(* models/book.py: a new Book row                                          *)
(***************************************************************************)
Book(owner, hash) ==
  [owner_id |-> owner, file_hash |-> hash, file_type |-> FileExt(hash),
   total_chunks |-> 0, is_processed |-> FALSE,
   processing_status |-> "pending", processing_error |-> "None"]

\* The columns of a Book that the handlers below assign.
BookColumns == {"total_chunks", "is_processed", "processing_status",
                "processing_error"}

\* SQLAlchemy unit of work: a flush UPDATEs exactly the columns whose value
\* differs from the value the session loaded; the other columns keep what is
\* in the database.
Flush(row, loaded, new) ==
  [c \in DOMAIN row |->
     IF c \in BookColumns /\ new[c] # loaded[c] THEN new[c] ELSE row[c]]

Message(b, r) == [book |-> b, retries |-> r]

\* process_book_task.delay(book_id)
Delay(b) == queue (+) SetToBag({Message(b, 0)})

(***************************************************************************)
(* api/books.py upload_book                                                *)
(***************************************************************************)
ExistingBooks(u, h) ==
  {b \in BookIds : books[b] # NoBook /\ books[b].owner_id = u
                    /\ books[b].file_hash = h}

\* if not existing_book.is_processed and
\*    existing_book.processing_status != "processing"
NeedsProcessing(row) ==
  ~row.is_processed /\ row.processing_status # "processing"

\* lines 176-180: file.filename.lower().endswith('.pdf'); the file_type
\* stored at line 252 is the extension as the client wrote it.
AllowedFilename(h) == Lower(FileExt(h)) = pdf

\* The whole handler with no other upload of the file in between.  Line
\* 203, scalar_one_or_none(), raises when the query finds two rows, and the
\* request ends with nothing done.
upload_book(u, h) ==
  /\ nEnqueued + BagCardinality(uploads) < MaxEnqueue
  /\ AllowedFilename(h)
  /\ Cardinality(ExistingBooks(u, h)) <= 1
  /\ IF ExistingBooks(u, h) # {}
       THEN \E b \in ExistingBooks(u, h) :
              /\ IF NeedsProcessing(books[b])
                   THEN /\ queue' = Delay(b)
                        /\ nEnqueued' = nEnqueued + 1
                   ELSE UNCHANGED <<queue, nEnqueued>>
              /\ UNCHANGED <<books, nextBook>>
       ELSE /\ nextBook <= MaxBooks
            /\ books' = [books EXCEPT ![nextBook] = Book(u, h)]
            /\ nextBook' = nextBook + 1
            /\ queue' = Delay(nextBook)
            /\ nEnqueued' = nEnqueued + 1
  /\ UNCHANGED <<runs, collections, nReprocess, nRuns, taskResult>>
  /\ UNCHANGED <<uploads, chatVars>>

\* lines 194-203: the request has found no Book of the owner with the
\* file's hash; the file goes to MinIO next.
UploadCheck(u, h) ==
  /\ nEnqueued + BagCardinality(uploads) < MaxEnqueue
  /\ AllowedFilename(h)
  /\ ExistingBooks(u, h) = {}
  /\ uploads' = uploads (+) SetToBag({[owner_id |-> u, file_hash |-> h]})
  /\ UNCHANGED <<books, nextBook, queue, runs, collections, nEnqueued,
                 nReprocess, nRuns, taskResult>>
  /\ UNCHANGED chatVars

\* lines 245-264: the request adds its Book row, commits and sends the
\* task; the table has no unique constraint on (owner_id, file_hash).
UploadCommit(up) ==
  /\ nextBook <= MaxBooks
  /\ uploads' = uploads (-) SetToBag({up})
  /\ books' = [books EXCEPT ![nextBook] = Book(up.owner_id, up.file_hash)]
  /\ nextBook' = nextBook + 1
  /\ queue' = Delay(nextBook)
  /\ nEnqueued' = nEnqueued + 1
  /\ UNCHANGED <<runs, collections, nReprocess, nRuns, taskResult>>
  /\ UNCHANGED chatVars

(***************************************************************************)
(* api/admin_extended.py reprocess_book.  The module registers a second    *)
(* handler on the same router and path (line 523); FastAPI dispatches to   *)
(* the first registered route, so this is the one that runs.               *)
(***************************************************************************)
reprocess_book(b) ==
  /\ nReprocess < MaxReprocess
  /\ books[b] # NoBook
  /\ books' = [books EXCEPT ![b] = [@ EXCEPT !.processing_status = "pending",
                                              !.is_processed = FALSE]]
  /\ nReprocess' = nReprocess + 1
  /\ UNCHANGED <<nextBook, queue, runs, collections, nEnqueued, nRuns,
                 taskResult>>
  /\ UNCHANGED <<uploads, chatVars>>

(***************************************************************************)
(* api/books.py delete_book: the owner's row is deleted, and its Chat rows *)
(* with it (Book.chats, cascade="all, delete-orphan").  The file is        *)
(* removed from MinIO; no call is made to Qdrant and none to Celery.       *)
(***************************************************************************)
delete_book(u, b) ==
  /\ books[b] # NoBook
  /\ books[b].owner_id = u
  /\ books' = [books EXCEPT ![b] = NoBook]
  /\ chats' = SelectSeq(chats, LAMBDA chat : chat.book_id # b)
  /\ UNCHANGED <<nextBook, queue, runs, collections, nEnqueued, nReprocess,
                 nRuns, taskResult>>
  /\ UNCHANGED <<uploads, subs, usage, reqs, response, nReqs>>

(***************************************************************************)
(* services/langchain_service.py process_and_embed_book                    *)
(***************************************************************************)
\* create_book_collection: create the collection unless it exists.
create_book_collection(b) ==
  IF ~collections[b].exists THEN [exists |-> TRUE, points |-> EmptyBag]
                            ELSE collections[b]

\* The points list: one point per chunk whose embedding did not raise, in
\* chunk order, each carrying chunk_index = idx of enumerate(chunks).
Points(h, fail) ==
  SelectSeq([i \in 1..NumChunks(h) |-> i - 1], LAMBDA idx : idx \notin fail)

\* range(0, len(points), batch_size)
NumBatches(points) == (Len(points) + batch_size - 1) \div batch_size

\* points[i:i + batch_size] for the n-th batch (n from 0)
Batch(points, n) ==
  SubSeq(points, n * batch_size + 1, Min((n + 1) * batch_size, Len(points)))

\* qdrant.upsert: every point has a fresh uuid4 id, so each is added.
Upsert(coll, batch) ==
  [coll EXCEPT !.points = @ (+) SetToBag({batch[j] : j \in 1..Len(batch)})]

\* The upsert loop after its first k batches.
RECURSIVE UpsertBatches(_, _, _)
UpsertBatches(coll, points, k) ==
  IF k = 0 THEN coll
  ELSE Upsert(UpsertBatches(coll, points, k - 1), Batch(points, k - 1))

(***************************************************************************)
(* workers/tasks.py process_book_task                                      *)
(***************************************************************************)
Run(m, pc, loaded, total) ==
  [book |-> m.book, retries |-> m.retries, pc |-> pc, loaded |-> loaded,
   total |-> total]

\* self.retry(exc=e, countdown=60): a new message with retries + 1 unless the
\* budget of max_retries is used up.
Retry(run) ==
  IF run.retries < max_retries
    THEN queue (+) SetToBag({Message(run.book, run.retries + 1)})
    ELSE queue

\* What the result backend holds for an execution that has ended: the task
\* state, and the error of the exception or of the returned dict.
TaskResult(m, state, error) ==
  [state |-> state, book |-> m.book, retries |-> m.retries, error |-> error]

\* The row of the run's Book has been deleted.  The session's copy is
\* expired by every commit, so the next read of an attribute raises
\* ObjectDeletedError, and an UPDATE of the row matches nothing and raises
\* StaleDataError.
Gone(run) == books[run.book] = NoBook

\* The run has moved on, or has ended.
Continue(run, new) == runs' = (runs (-) SetToBag({run})) (+) SetToBag({new})
Return(run) == runs' = runs (-) SetToBag({run})

\* lines 68-85: a free worker takes a message, loads the book, sets
\* "processing", commits.
TaskStartUpTo(limit) ==
  /\ BagCardinality(runs) < NumWorkers
  /\ nRuns < limit
  /\ nRuns' = nRuns + 1
  /\ \E m \in BagToSet(queue) :
       /\ queue' = queue (-) SetToBag({m})
       /\ IF books[m.book] = NoBook
            THEN /\ taskResult' = TaskResult(m, "SUCCESS", "None")
                 /\ UNCHANGED <<books, runs>>
            ELSE LET loaded == books[m.book]
                     new == [loaded EXCEPT !.processing_status = "processing"]
                 IN /\ books' = [books EXCEPT ![m.book] = Flush(@, loaded, new)]
                    /\ runs' = runs (+) SetToBag({Run(m, "started", new, 0)})
                    /\ UNCHANGED taskResult
  /\ UNCHANGED <<nextBook, collections, nEnqueued, nReprocess>>
  /\ UNCHANGED <<uploads, chatVars>>

TaskStart == TaskStartUpTo(MaxRuns)

\* lines 87-103: the file is not in MinIO: "failed", no retry.
TaskFileMissing(run) ==
  /\ run.pc = "started"
  /\ ~Gone(run)
  /\ LET b == run.book
         loaded == books[b]
         new == [loaded EXCEPT !.processing_status = "failed",
                               !.processing_error = "File not found in MinIO"]
     IN books' = [books EXCEPT ![b] = Flush(@, loaded, new)]
  /\ Return(run)
  /\ taskResult' = TaskResult(run, "SUCCESS", "File not found in MinIO")
  /\ UNCHANGED <<nextBook, queue, collections, nEnqueued, nReprocess, nRuns>>
  /\ UNCHANGED <<uploads, chatVars>>

\* lines 105-128: download, metadata, commit; the session reloads the row.
\* (Line 88 is taken to use the module's asyncio.  As the file is written,
\* the import at line 154 makes asyncio a local name of the function and
\* line 88 raises in every run: that run is TaskRaise from "started".)
TaskLoad(run) ==
  /\ run.pc = "started"
  /\ ~Gone(run)
  /\ Continue(run, [run EXCEPT !.pc = "loaded", !.loaded = books[run.book]])
  /\ UNCHANGED <<books, nextBook, queue, collections, nEnqueued, nReprocess,
                 nRuns, taskResult>>
  /\ UNCHANGED <<uploads, chatVars>>

\* lines 199-216: the except block: "failed", the message, commit, retry.
\* When the row is gone and the flush has an UPDATE to send, the commit
\* raises and the task ends before self.retry.
Fail(run, loaded, err) ==
  LET b == run.book
      new == [loaded EXCEPT !.processing_status = "failed",
                            !.processing_error = err]
      stale == Gone(run) /\ new # loaded
  IN /\ books' = [books EXCEPT ![b] = Flush(@, loaded, new)]
     /\ queue' = IF stale THEN queue ELSE Retry(run)
     /\ Return(run)
     /\ taskResult' =
          IF stale THEN TaskResult(run, "FAILURE", "row deleted")
          ELSE TaskResult(run, IF run.retries < max_retries
                                 THEN "RETRY" ELSE "FAILURE", err)

\* The first statement that touches the deleted row raises (line 90 after
\* the commit of line 85, the final update at line 176), and so does the
\* commit of the except block.
TaskGone(run) ==
  /\ run.pc \in {"started", "embedded"}
  /\ Gone(run)
  /\ Return(run)
  /\ taskResult' = TaskResult(run, "FAILURE", "row deleted")
  /\ UNCHANGED <<books, nextBook, queue, collections, nEnqueued, nReprocess,
                 nRuns>>
  /\ UNCHANGED <<uploads, chatVars>>

\* lines 128-136: the file types that have a text extractor.
Supported(file_type) ==
  file_type \in {pdf, <<"e", "p", "u", "b">>, <<"t", "x", "t">>}

\* line 136: raise ValueError("Unsupported file type")
TaskUnsupported(run) ==
  /\ run.pc = "loaded"
  /\ ~Supported(run.loaded.file_type)
  /\ Fail(run, run.loaded, "Unsupported file type")
  /\ UNCHANGED <<nextBook, collections, nEnqueued, nReprocess, nRuns>>
  /\ UNCHANGED <<uploads, chatVars>>

\* lines 138-139: the extractor returned no text, or fewer than 100
\* characters, from the file the worker downloaded.
TaskTextTooShort(run) ==
  /\ run.pc = "loaded"
  /\ Supported(run.loaded.file_type)
  /\ Fail(run, run.loaded, "Extracted text is too short or empty")
  /\ UNCHANGED <<nextBook, collections, nEnqueued, nReprocess, nRuns>>
  /\ UNCHANGED <<uploads, chatVars>>

\* download, metadata or text extraction raises.
TaskRaise(run) ==
  /\ run.pc \in {"started", "loaded"}
  /\ run.pc = "started" => ~Gone(run)
  /\ run.pc = "loaded" => Supported(run.loaded.file_type)
  /\ Fail(run, IF run.pc = "started" THEN books[run.book] ELSE run.loaded,
          "extraction failed")
  /\ UNCHANGED <<nextBook, collections, nEnqueued, nReprocess, nRuns>>
  /\ UNCHANGED <<uploads, chatVars>>

\* langchain_service.py lines 62-66: create_book_collection has listed the
\* collections and found none for the Book; the create call is still to
\* come.
TaskCheckCollection(run) ==
  /\ run.pc = "loaded"
  /\ Supported(run.loaded.file_type)
  /\ ~collections[run.book].exists
  /\ Continue(run, [run EXCEPT !.pc = "creating"])
  /\ UNCHANGED <<books, nextBook, queue, collections, nEnqueued, nReprocess,
                 nRuns, taskResult>>
  /\ UNCHANGED <<uploads, chatVars>>

\* langchain_service.py lines 67-80: qdrant.create_collection; Qdrant
\* refuses to create a collection that exists, and the exception is logged
\* and raised again.
TaskCreateCollection(run) ==
  /\ run.pc = "creating"
  /\ IF collections[run.book].exists
       THEN /\ Fail(run, run.loaded, "collection already exists")
            /\ UNCHANGED collections
       ELSE /\ collections' = [collections EXCEPT ![run.book] =
                                 [exists |-> TRUE, points |-> EmptyBag]]
            /\ Continue(run, [run EXCEPT !.pc = "created"])
            /\ UNCHANGED <<books, queue, taskResult>>
  /\ UNCHANGED <<nextBook, nEnqueued, nReprocess, nRuns>>
  /\ UNCHANGED <<uploads, chatVars>>

\* lines 152-164: process_and_embed_book; an upsert may raise after the
\* batches before it were stored.
TaskEmbed(run) ==
  /\ run.pc \in {"loaded", "created"}
  /\ Supported(run.loaded.file_type)
  /\ LET b == run.book IN
     \E fail \in EmbedFailSets :
       LET points == Points(run.loaded.file_hash, fail) IN
       \E k \in 0..NumBatches(points) :
         /\ collections' = [collections EXCEPT ![b] =
                UpsertBatches(create_book_collection(b), points, k)]
         /\ IF k = NumBatches(points)
              THEN /\ Continue(run, [run EXCEPT !.pc = "embedded",
                                                !.total = Len(points)])
                   /\ UNCHANGED <<books, queue, taskResult>>
              ELSE Fail(run, run.loaded, "upsert failed")
  /\ UNCHANGED <<nextBook, nEnqueued, nReprocess, nRuns>>
  /\ UNCHANGED <<uploads, chatVars>>

\* lines 166-176: the final update.
TaskComplete(run) ==
  /\ run.pc = "embedded"
  /\ ~Gone(run)
  /\ LET b == run.book
         loaded == run.loaded
         new == [loaded EXCEPT !.is_processed = TRUE,
                               !.processing_status = "completed",
                               !.total_chunks = run.total]
     IN books' = [books EXCEPT ![b] = Flush(@, loaded, new)]
  /\ Return(run)
  /\ taskResult' = TaskResult(run, "SUCCESS", "None")
  /\ UNCHANGED <<nextBook, queue, collections, nEnqueued, nReprocess, nRuns>>
  /\ UNCHANGED <<uploads, chatVars>>

\* line 176 raises: the final update is rolled back.  The except block sets
\* "failed" on the same session and commits again: when that commit goes
\* through, the run ends as any failed run; when it raises too (the session
\* was never rolled back, or the database is still away), the exception
\* leaves the task before self.retry and the row stays as it was.
TaskCompleteFails(run) ==
  /\ run.pc = "embedded"
  /\ ~Gone(run)
  /\ \E recovered \in BOOLEAN :
       IF recovered
         THEN Fail(run, books[run.book], "commit failed")
         ELSE /\ Return(run)
              /\ taskResult' = TaskResult(run, "FAILURE", "commit failed")
              /\ UNCHANGED <<books, queue>>
  /\ UNCHANGED <<nextBook, collections, nEnqueued, nReprocess, nRuns>>
  /\ UNCHANGED <<uploads, chatVars>>

\* The next step of an execution under way.
TaskStep ==
  \E run \in BagToSet(runs) :
    \/ TaskFileMissing(run)
    \/ TaskLoad(run)
    \/ TaskUnsupported(run)
    \/ TaskTextTooShort(run)
    \/ TaskRaise(run)
    \/ TaskCheckCollection(run)
    \/ TaskCreateCollection(run)
    \/ TaskEmbed(run)
    \/ TaskComplete(run)
    \/ TaskCompleteFails(run)
    \/ TaskGone(run)

process_book_task == TaskStart \/ TaskStep

(***************************************************************************)
(* Ingestion specification                                                 *)
(***************************************************************************)
Init ==
  /\ books = [b \in BookIds |-> NoBook]
  /\ nextBook = 1
  /\ queue = EmptyBag
  /\ runs = EmptyBag
  /\ collections = [b \in BookIds |-> NoCollection]
  /\ nEnqueued = 0
  /\ nReprocess = 0
  /\ nRuns = 0
  /\ taskResult = NoResult
  /\ uploads = EmptyBag
  /\ subs = [u \in Users |-> 0]
  /\ chats = <<>>
  /\ usage = <<>>
  /\ reqs = [r \in Slots |-> NoRequest]
  /\ response = NoResponse
  /\ nReqs = 0

Next ==
  \/ \E u \in Uploaders, h \in FileHashes : upload_book(u, h)
  \/ \E b \in BookIds : reprocess_book(b)
  \/ process_book_task

Spec == Init /\ [][Next]_vars

\* Ingestion of one file with room for every retry of an execution.
NextRetry ==
  \/ \E u \in Uploaders : upload_book(u, "h1")
  \/ \E b \in BookIds : reprocess_book(b)
  \/ TaskStartUpTo(MaxRetryRuns)
  \/ TaskStep

SpecRetry == Init /\ [][NextRetry]_vars

\* Ingestion with uploads that overlap.
NextUpload ==
  \/ Next
  \/ \E u \in Uploaders, h \in FileHashes : UploadCheck(u, h)
  \/ \E up \in BagToSet(uploads) : UploadCommit(up)

SpecUpload == Init /\ [][NextUpload]_vars

\* Ingestion with books deleted by their owner.
NextDelete ==
  \/ Next
  \/ \E u \in Uploaders, b \in BookIds : delete_book(u, b)

SpecDelete == Init /\ [][NextDelete]_vars

\* Ingestion of a file named ".pdf" and of one named ".PDF".
NextInput ==
  \/ \E u \in Uploaders, h \in {"h1", "h3"} : upload_book(u, h)
  \/ \E b \in BookIds : reprocess_book(b)
  \/ TaskStartUpTo(MaxRetryRuns)
  \/ TaskStep

SpecInput == Init /\ [][NextInput]_vars

TypeOK ==
  /\ nextBook \in 1..(MaxBooks + 1)
  /\ nEnqueued \in 0..MaxEnqueue
  /\ taskResult.state \in {"none", "SUCCESS", "RETRY", "FAILURE"}
  /\ BagCardinality(uploads) <= MaxEnqueue

(***************************************************************************)
(* services/langchain_service.py _is_inappropriate_content.  A message is  *)
(* a sequence of characters; a Cyrillic letter is written "cyr-x".         *)
(***************************************************************************)
inappropriate_keywords ==
  << <<"cyr-s", "cyr-e", "cyr-k", "cyr-s">>,
     <<"s", "e", "x">>,
     <<"p", "o", "r", "n">>,
     <<"cyr-p", "cyr-o", "cyr-r", "cyr-n", "cyr-o">>,
     <<"x", "x", "x">>,
     <<"cyr-n", "cyr-a", "cyr-s", "cyr-i", "cyr-l", "cyr-i", "cyr-e">>,
     <<"v", "i", "o", "l", "e", "n", "c", "e">>,
     <<"d", "r", "u", "g", "s">>,
     <<"cyr-n", "cyr-a", "cyr-r", "cyr-k", "cyr-o", "cyr-t", "cyr-i", "cyr-k",
       "cyr-i">>,
     <<"s", "u", "i", "c", "i", "d", "e">>,
     <<"cyr-s", "cyr-u", "cyr-i", "cyr-ts", "cyr-i", "cyr-d">>,
     <<"cyr-s", "cyr-a", "cyr-m", "cyr-o", "cyr-u", "cyr-b", "cyr-i", "cyr-j",
       "cyr-s", "cyr-t", "cyr-v", "cyr-o">>,
     <<"h", "e", "n", "t", "a", "i">>,
     <<"cyr-h", "cyr-e", "cyr-n", "cyr-t", "cyr-a", "cyr-j">>,
     <<"1", "8", "+">>,
     <<"n", "s", "f", "w">> >>

\* keyword in message
Contains(m, k) ==
  \E i \in 1..(Len(m) - Len(k) + 1) : SubSeq(m, i, i + Len(k) - 1) = k

is_inappropriate_content_nolower(message) ==
  \E n \in 1..Len(inappropriate_keywords) :
    Contains(message, inappropriate_keywords[n])

is_inappropriate_content(message) ==
  LET message_lower == Lower(message)
  IN \E n \in 1..Len(inappropriate_keywords) :
       Contains(message_lower, inappropriate_keywords[n])

\* The messages users send.
MsgHello == <<"H", "e", "l", "l", "o">>
MsgEssex == <<"E", "s", "S", "E", "X">>
Messages == {MsgHello, MsgEssex}

(***************************************************************************)
(* services/token_manager.py                                               *)
(***************************************************************************)
FREE_TIER_TOKEN_LIMIT == 10000   \* core/config.py; Subscription.token_limit
estimated_tokens == 500          \* api/chat.py

\* check_token_limit that leaves tokens_needed out of the comparison.
check_token_limit_noestimate(u, tokens_needed) ==
  ~(subs[u] > FREE_TIER_TOKEN_LIMIT)

\* check_token_limit: TRUE when the request passes, FALSE for HTTP 402.
check_token_limit(u, tokens_needed) ==
  ~(subs[u] + tokens_needed > FREE_TIER_TOKEN_LIMIT)

\* consume_tokens without the addition.
consume_tokens_noadd(u, loaded, tokens_used) == subs

\* consume_tokens with an UPDATE of the column whether or not it changed.
consume_tokens_always(u, loaded, tokens_used) ==
  [subs EXCEPT ![u] = loaded + tokens_used]

\* consume_tokens: subscription.tokens_used += tokens_used on the Subscription
\* object that the request's session loaded in check_token_limit; the flush
\* writes the column only when its value changed.
consume_tokens(u, loaded, tokens_used) ==
  IF loaded + tokens_used # loaded
    THEN [subs EXCEPT ![u] = loaded + tokens_used]
    ELSE subs

TokenUsage(u, tokens_used) == [user_id |-> u, tokens_used |-> tokens_used]

(***************************************************************************)
(* api/chat.py chat_with_book                                              *)
(***************************************************************************)
\* Token costs that a generation may report: words of the formatted prompt
\* plus words of the response.
TokenCosts == {400, 1500}

\* Session ids a client may send: none (0), or the id of a stored exchange.
FreshSession(n) == 10 + n
ClientSessions == {0} \cup {chats[i].session_id : i \in 1..Len(chats)}

Request(u, b, msg, sid) ==
  [pc |-> "begin", user |-> u, book |-> b, msg |-> msg, session |-> sid,
   loaded |-> 0, history |-> <<>>, result |-> "none", tokens |-> 0,
   retrieved |-> FALSE, search |-> "none", generated |-> FALSE,
   messages |-> <<>>, attempts |-> 0, failure |-> "none"]

\* The response to a request: what was asked, the HTTP status, the pipeline
\* result if there was one, whether retrieval and the model were called, how
\* the search inside the retrieval ended, how many times llm.ainvoke was
\* called and the exception of the last call.
Response(req, code) ==
  [outcome |-> code, user |-> req.user, book |-> req.book, msg |-> req.msg,
   result |-> req.result, retrieved |-> req.retrieved, search |-> req.search,
   generated |-> req.generated, attempts |-> req.attempts,
   failure |-> req.failure]

\* lines 33-45: select(Book).where(id == book_id, owner_id == current_user.id)
FindBook(u, b) == books[b] # NoBook /\ books[b].owner_id = u

\* line 47 with a check of the status instead of the flag.
StillProcessingByStatus(row) == row.processing_status = "processing"

\* line 47: if not book.is_processed
StillProcessing(row) == ~row.is_processed

\* lines 61-72: the first 10 exchanges of the session by created_at.
PastChats(sid) ==
  LET rows == SelectSeq([i \in 1..Len(chats) |-> i],
                        LAMBDA i : chats[i].session_id = sid)
  IN SubSeq(rows, 1, Min(10, Len(rows)))

\* lines 69-72: two messages for each row; the content of a message is
\* written as the row it was taken from.
RECURSIVE conversation_history(_)
conversation_history(past_chats) ==
  IF past_chats = <<>> THEN <<>>
  ELSE <<[role |-> "user", content |-> Head(past_chats)],
         [role |-> "assistant", content |-> Head(past_chats)]>>
       \o conversation_history(Tail(past_chats))

\* seq[-n:]
LastOf(seq, n) ==
  SubSeq(seq, IF Len(seq) > n THEN Len(seq) - n + 1 ELSE 1, Len(seq))

\* langchain_service.py lines 227-232: conversation_history[-6:]
HistoryMessages(history) == LastOf(history, 6)

\* lines 32-72: book lookup, processed check, token pre-check, history.
\* A new request is served in the first free slot.
ChatBegin(r, u, b, msg, sid) ==
  /\ reqs[r] = NoRequest
  /\ \A q \in Slots : q < r => reqs[q] # NoRequest
  /\ nReqs < MaxReqs
  /\ nReqs' = nReqs + 1
  /\ LET req == Request(u, b, msg, sid)
         reject(code) == /\ response' = Response(req, code)
                         /\ UNCHANGED reqs
     IN IF ~FindBook(u, b) THEN reject("404")
        ELSE IF StillProcessing(books[b]) THEN reject("400")
        ELSE IF ~check_token_limit(u, estimated_tokens) THEN reject("402")
        ELSE /\ reqs' = [reqs EXCEPT ![r] =
                  [req EXCEPT !.pc = "pipeline", !.loaded = subs[u],
                     !.session = IF sid # 0 THEN sid
                                            ELSE FreshSession(nReqs'),
                     !.history = IF sid # 0
                                   THEN conversation_history(PastChats(sid))
                                   ELSE <<>>]]
             /\ UNCHANGED response
  /\ UNCHANGED <<subs, chats, usage>>
  /\ UNCHANGED ingestVars

\* lines 141-150: encode() or qdrant.search() raises; Qdrant raises for a
\* collection that does not exist.
SearchRaises(b, searchFails) == searchFails \/ ~collections[b].exists

\* What a caller gets when search_similar_chunks lets an exception out.
Raised == {-1}

\* search_similar_chunks without the except clause of lines 165-167.
search_similar_chunks_reraise(b, searchFails) ==
  IF SearchRaises(b, searchFails) THEN Raised
  ELSE BagToSet(collections[b].points)

\* search_similar_chunks: the chunk_index of the points found; the except
\* clause turns every exception into the empty list.
search_similar_chunks(b, searchFails) ==
  IF SearchRaises(b, searchFails) THEN {}
  ELSE BagToSet(collections[b].points)

\* lines 244-273 with the exception turned into a response.
generate_swallow(llmFails, cost) ==
  IF llmFails THEN [raised |-> FALSE, response |-> "error", tokens_used |-> 0]
  ELSE [raised |-> FALSE, response |-> "answer", tokens_used |-> cost]

\* lines 244-273: llm.ainvoke and the token estimate; an exception of the
\* model call is logged and raised again.
generate(llmFails, cost) ==
  IF llmFails THEN [raised |-> TRUE, response |-> "none", tokens_used |-> 0]
  ELSE [raised |-> FALSE, response |-> "answer", tokens_used |-> cost]

\* How a call of the model may end: it answers, or it raises an exception
\* of the retryable kind (timeout, rate limit) or of the fatal kind (auth,
\* invalid request).
Retryable == {"timeout"}
Fatal == {"auth"}
LLMOutcomes == {"none"} \cup Retryable \cup Fatal

\* langchain_service.py chat_with_book, lines 181-273.
ChatPipeline(r) ==
  /\ reqs[r].pc = "pipeline"
  /\ \E searchFails \in BOOLEAN, failure \in LLMOutcomes, cost \in TokenCosts :
       LET req == reqs[r]
           llmFails == failure # "none"
           found == search_similar_chunks(req.book, searchFails)
           searched ==
             [req EXCEPT !.retrieved = TRUE,
                         !.search = IF SearchRaises(req.book, searchFails)
                                      THEN "raised"
                                    ELSE IF found = {} THEN "empty"
                                    ELSE "found"]
           continue(new) == /\ reqs' = [reqs EXCEPT ![r] = new]
                            /\ UNCHANGED response
           raise(new) == /\ response' = Response(new, "500")
                         /\ reqs' = [reqs EXCEPT ![r] = NoRequest]
       IN IF is_inappropriate_content(req.msg)
            THEN continue([req EXCEPT !.pc = "persist", !.result = "refusal",
                                      !.tokens = 0])
          ELSE IF found = Raised
            THEN raise(searched)
          ELSE IF found = {}
            THEN continue([searched EXCEPT !.pc = "persist",
                                           !.result = "fallback",
                                           !.tokens = 0])
          ELSE LET ai_result == generate(llmFails, cost) IN
               IF ai_result.raised
                 THEN raise([searched EXCEPT !.generated = TRUE,
                                             !.attempts = 1,
                                             !.failure = failure])
               ELSE continue([searched EXCEPT
                                !.pc = "persist",
                                !.attempts = 1,
                                !.result = ai_result.response,
                                !.tokens = ai_result.tokens_used,
                                !.generated = TRUE,
                                !.messages = HistoryMessages(req.history)])
  /\ UNCHANGED <<subs, chats, usage, nReqs>>
  /\ UNCHANGED ingestVars

Chat(req) ==
  [user_id |-> req.user, book_id |-> req.book, session_id |-> req.session,
   user_message |-> req.msg, ai_response |-> req.result,
   tokens_used |-> req.tokens]

\* lines 97-121: db.add(chat), consume_tokens and its commit: the Chat row,
\* the Subscription update and the TokenUsage row are one transaction.
ChatPersist(r) ==
  /\ reqs[r].pc = "persist"
  /\ LET req == reqs[r] IN
     /\ chats' = Append(chats, Chat(req))
     /\ subs' = consume_tokens(req.user, req.loaded, req.tokens)
     /\ usage' = Append(usage, TokenUsage(req.user, req.tokens))
     /\ response' = Response(req, "200")
     /\ reqs' = [reqs EXCEPT ![r] = NoRequest]
  /\ UNCHANGED nReqs
  /\ UNCHANGED ingestVars

\* The commit raises: get_db rolls the transaction back.
ChatPersistFails(r) ==
  /\ reqs[r].pc = "persist"
  /\ response' = Response(reqs[r], "500")
  /\ reqs' = [reqs EXCEPT ![r] = NoRequest]
  /\ UNCHANGED <<subs, chats, usage, nReqs>>
  /\ UNCHANGED ingestVars

chat_with_book(r) ==
  \/ \E u \in Users, b \in BookIds, msg \in Messages, sid \in ClientSessions :
       ChatBegin(r, u, b, msg, sid)
  \/ ChatPipeline(r)
  \/ ChatPersist(r)
  \/ ChatPersistFails(r)

(***************************************************************************)
(* Chat specification: the books are as ingestion left them.               *)
(***************************************************************************)
\* Book 1: a completed book of u1 with its two segments stored.
\* Book 2: a book of u2, either not processed yet or completed with every
\* chunk dropped by the embedding loop.  Qdrant is a store of its own: the
\* collection of book 2 may be gone from it.
ProcessedBook(u, n) ==
  [Book(u, "h1") EXCEPT !.is_processed = TRUE,
                        !.processing_status = "completed",
                        !.total_chunks = n]

InitBooks ==
  { [b \in BookIds |-> IF b = 1 THEN ProcessedBook("u1", 2)
                       ELSE IF b = 2 THEN second
                       ELSE NoBook] :
      second \in {Book("u2", "h1"), ProcessedBook("u2", 0)} }

InitCollection(row) ==
  IF row = NoBook \/ ~row.is_processed THEN NoCollection
  ELSE [exists |-> TRUE,
        points |-> SetToBag({i \in 0..1 : i < row.total_chunks})]

\* Tokens used before the first request of the model.
InitTokens == {0, 9000, 9600}

InitChat ==
  /\ books \in InitBooks
  /\ \E lost \in BOOLEAN :
       collections = [b \in BookIds |-> IF lost /\ b = 2 THEN NoCollection
                                         ELSE InitCollection(books[b])]
  /\ nextBook = MaxBooks + 1
  /\ queue = EmptyBag
  /\ runs = EmptyBag
  /\ nEnqueued = 0
  /\ nReprocess = 0
  /\ nRuns = 0
  /\ taskResult = NoResult
  /\ uploads = EmptyBag
  /\ \E t \in InitTokens : subs = [u \in Users |-> t]
  /\ chats = <<>>
  /\ usage = <<>>
  /\ reqs = [r \in Slots |-> NoRequest]
  /\ response = NoResponse
  /\ nReqs = 0

NextChat == \E r \in Slots : chat_with_book(r)

SpecChat == InitChat /\ [][NextChat]_vars

(***************************************************************************)
(* Chat on a session that already holds exchanges: u1 has had up to        *)
(* MaxStored exchanges about book 1 in session StoredSession.              *)
(***************************************************************************)
StoredSession == 1
StoredCost == 400

StoredChat ==
  [user_id |-> "u1", book_id |-> 1, session_id |-> StoredSession,
   user_message |-> MsgHello, ai_response |-> "answer",
   tokens_used |-> StoredCost]

InitHistory ==
  /\ books = [b \in BookIds |-> IF b = 1 THEN ProcessedBook("u1", 2)
                                 ELSE IF b = 2 THEN Book("u2", "h1")
                                 ELSE NoBook]
  /\ collections = [b \in BookIds |-> InitCollection(books[b])]
  /\ nextBook = MaxBooks + 1
  /\ queue = EmptyBag
  /\ runs = EmptyBag
  /\ nEnqueued = 0
  /\ nReprocess = 0
  /\ nRuns = 0
  /\ taskResult = NoResult
  /\ uploads = EmptyBag
  /\ \E n \in 0..MaxStored :
       /\ chats = [i \in 1..n |-> StoredChat]
       /\ usage = [i \in 1..n |-> TokenUsage("u1", StoredCost)]
       /\ subs = [u \in Users |-> IF u = "u1" THEN n * StoredCost ELSE 0]
  /\ reqs = [r \in Slots |-> NoRequest]
  /\ response = NoResponse
  /\ nReqs = 0

SpecHistory == InitHistory /\ [][NextChat]_vars

(***************************************************************************)
(* Properties of ingestion (checked under Spec)                            *)
(***************************************************************************)
Status(b) == books[b].processing_status
ActiveRuns(b) ==
  BagCardinality([run \in {x \in BagToSet(runs) : x.book = b}
                    |-> CopiesIn(run, runs)])
PointCount(b) == BagCardinality(collections[b].points)
Settled(b) ==
  books[b] # NoBook /\ Status(b) = "completed" /\ ActiveRuns(b) = 0

AllowedTransitions ==
  {<<"pending", "processing">>, <<"processing", "completed">>,
   <<"processing", "failed">>, <<"failed", "pending">>}

\* C1: every change of a Book's processing_status is pending->processing,
\* processing->completed, processing->failed or failed->pending.
C1_OnlyAllowedTransitions ==
  [][\A b \in BookIds :
       (books[b] # NoBook /\ books'[b] # NoBook
        /\ books'[b].processing_status # books[b].processing_status)
       => <<books[b].processing_status, books'[b].processing_status>>
            \in AllowedTransitions]_vars

C3_AtMostOneActiveRun ==
  \A b \in BookIds : ActiveRuns(b) <= 1

DisallowedMessages == {MsgEssex}

\* The step moved the request of slot r on.
Moved(r) == reqs'[r] # reqs[r] /\ reqs'[r] # NoRequest

\* The step returned a response, which is response'.
Returned ==
  \/ nReqs' # nReqs /\ reqs' = reqs
  \/ \E r \in Slots : reqs[r] # NoRequest /\ reqs'[r] = NoRequest

Unprocessed(u, b) == FindBook(u, b) /\ ~books[b].is_processed

\* C5: a step either leaves the chats, the token_usage rows and every
\* tokens_used as they are, or commits one Chat row together with the
\* TokenUsage row and the addition of its tokens_used to the tokens_used the
\* request loaded; a failed commit after a successful generation is of the
\* first kind.
C5_TokensAtomicWithChat ==
  [][\/ UNCHANGED <<chats, usage, subs>>
     \/ \E r \in Slots :
          /\ reqs[r].pc = "persist"
          /\ chats' = Append(chats, Chat(reqs[r]))
          /\ usage' = Append(usage, TokenUsage(reqs[r].user, reqs[r].tokens))
          /\ subs' = [subs EXCEPT ![reqs[r].user] =
                        IF reqs[r].tokens > 0
                          THEN reqs[r].loaded + reqs[r].tokens ELSE @]]_vars

C5_Witness ==
  /\ \E i \in 1..Len(chats) : chats[i].tokens_used > 0
  /\ response.outcome = "500"
  /\ response.result = "answer"

\* C6: Subscription.tokens_used never exceeds Subscription.token_limit.
C6_TokensWithinLimit ==
  \A u \in Users : subs[u] <= FREE_TIER_TOKEN_LIMIT

\* C7: a chat request for a Book of the requester that is not processed ends
\* at once with HTTP 400, without retrieval, without a model call, without a
\* Chat row and with every tokens_used unchanged.
C7_UnprocessedRejected ==
  [][/\ \A r \in Slots :
          Moved(r) => ~Unprocessed(reqs'[r].user, reqs'[r].book)
     /\ (Returned /\ Unprocessed(response'.user, response'.book))
          => /\ response'.outcome = "400"
             /\ ~response'.retrieved
             /\ ~response'.generated
             /\ nReqs' # nReqs
             /\ UNCHANGED <<chats, usage, subs>>]_vars

C7_Witness ==
  response.outcome = "400" /\ Unprocessed(response.user, response.book)

\* C8 as stated: every chat request on a processed Book of the requester
\* whose message matches the keyword filter returned the fixed refusal with
\* tokens_used = 0, and made no retrieval and no model call.
C8_AlwaysRefusal ==
  (/\ response # NoResponse
   /\ response.msg \in DisallowedMessages
   /\ FindBook(response.user, response.book)
   /\ books[response.book].is_processed)
  => /\ response.outcome = "200"
     /\ response.result = "refusal"
     /\ ~response.retrieved
     /\ ~response.generated

\* C8 as amended: a chat request whose message matches the keyword filter
\* never makes a retrieval or a model call and never changes a tokens_used;
\* once it has passed the book lookup, the processed check and the token
\* pre-check, its pipeline result is the fixed refusal with tokens_used = 0,
\* and that is what a committed Chat row and a 200 response carry.
C8_RefusalAfterChecks ==
  [][/\ \A r \in Slots :
          (Moved(r) /\ reqs'[r].msg \in DisallowedMessages)
          => /\ ~reqs'[r].retrieved
             /\ ~reqs'[r].generated
             /\ subs' = subs
             /\ reqs[r].pc = "pipeline"
                  => /\ reqs'[r].pc = "persist"
                     /\ reqs'[r].result = "refusal"
                     /\ reqs'[r].tokens = 0
     /\ (Returned /\ response'.msg \in DisallowedMessages)
          => /\ ~response'.retrieved
             /\ ~response'.generated
             /\ subs' = subs
             /\ response'.outcome \in {"404", "400", "402", "200", "500"}
             /\ response'.outcome = "200"
                  => /\ response'.result = "refusal"
                     /\ Len(chats') = Len(chats) + 1
                     /\ chats'[Len(chats')].ai_response = "refusal"
                     /\ chats'[Len(chats')].tokens_used = 0]_vars

C8_Witness ==
  /\ response.outcome = "200"
  /\ response.msg \in DisallowedMessages
  /\ response.result = "refusal"

\* The request that slot r served before the step, as it is after the step:
\* still in its slot, or answered.
After(r) == IF reqs'[r] = NoRequest THEN response' ELSE reqs'[r]

\* The step ran the pipeline for the request of slot r and called
\* search_similar_chunks.
Searched(r) ==
  reqs[r].pc = "pipeline" /\ reqs'[r] # reqs[r] /\ After(r).retrieved

\* C11: search_similar_chunks never raises: when the collection of the Book
\* does not exist or holds no points, or when the embedder or Qdrant raises,
\* it returns the empty list, so the request goes on to the fallback and is
\* never answered with the 500 of an exception.
C11_RetrieveNeverRaises ==
  [][\A r \in Slots :
       Searched(r) =>
         /\ (\/ ~collections[After(r).book].exists
             \/ collections[After(r).book].points = EmptyBag)
              => After(r).search \in {"raised", "empty"}
         /\ After(r).search \in {"raised", "empty"}
              => /\ reqs'[r] # NoRequest
                 /\ reqs'[r].pc = "persist"
                 /\ reqs'[r].result = "fallback"]_vars

C11_Witness ==
  /\ response.outcome = "200"
  /\ response.search = "raised"
  /\ response.result = "fallback"
  /\ ~collections[response.book].exists

\* search_similar_chunks returned no segments for the request.
EmptyRetrieval(q) == q.search \in {"raised", "empty"}

\* C12: when retrieval returns no segments, the model is never called, the
\* pipeline result is the fixed fallback with tokens_used = 0, that is what
\* the 200 response and the committed Chat row carry, and no step of the
\* request changes a Subscription.tokens_used.
C12_FallbackWithoutGeneration ==
  [][/\ \A r \in Slots :
          (Moved(r) /\ EmptyRetrieval(reqs'[r]))
          => /\ ~reqs'[r].generated
             /\ reqs'[r].result = "fallback"
             /\ reqs'[r].tokens = 0
             /\ subs' = subs
     /\ (Returned /\ EmptyRetrieval(response'))
          => /\ ~response'.generated
             /\ subs' = subs
             /\ response'.outcome \in {"200", "500"}
             /\ response'.outcome = "200"
                  => /\ response'.result = "fallback"
                     /\ Len(chats') = Len(chats) + 1
                     /\ chats'[Len(chats')].ai_response = "fallback"
                     /\ chats'[Len(chats')].tokens_used = 0]_vars

C12_Witness ==
  /\ response.outcome = "200"
  /\ response.search = "empty"
  /\ response.result = "fallback"
  /\ subs[response.user] > 0
  /\ \E i \in 1..Len(chats) :
       /\ chats[i].ai_response = "fallback"
       /\ chats[i].user_id = response.user

\* C13: all Chat rows that share one session_id have the same book_id.
C13_SessionOneBook ==
  \A i, j \in 1..Len(chats) :
    chats[i].session_id = chats[j].session_id
      => chats[i].book_id = chats[j].book_id

\* The model was called for the request and gave no answer.
GenerationFailed(q) == q.generated /\ q.result # "answer"

\* C14: a request whose model call fails goes no further: it is answered
\* with 500 in the step of the call, and that step leaves the chats, the
\* token_usage rows and every tokens_used unchanged.
C14_FailedGenerationPersistsNothing ==
  [][/\ \A r \in Slots : Moved(r) => ~GenerationFailed(reqs'[r])
     /\ (Returned /\ GenerationFailed(response'))
          => /\ response'.outcome = "500"
             /\ \E r \in Slots : reqs[r].pc = "pipeline"
                                 /\ reqs'[r] = NoRequest
             /\ UNCHANGED <<chats, usage, subs>>]_vars

C14_Witness ==
  /\ response.outcome = "500"
  /\ response.generated
  /\ response.result = "none"
  /\ response.search = "found"

\* tokens_used + 500 > token_limit for user u before the step.
OverBudget(u) == subs[u] + estimated_tokens > FREE_TIER_TOKEN_LIMIT

\* C15: a chat request that reaches the token pre-check (its Book is found
\* and processed) while tokens_used + 500 > token_limit is rejected with 402
\* and never enters the pipeline; a 402 is given only in the first step of a
\* request, before any retrieval or model call, and that step leaves the
\* chats, the token_usage rows and every tokens_used unchanged.
C15_OverBudgetRejected ==
  [][/\ \A r \in Slots :
          (Moved(r) /\ reqs[r] = NoRequest) => ~OverBudget(reqs'[r].user)
     /\ (/\ Returned /\ nReqs' # nReqs
         /\ FindBook(response'.user, response'.book)
         /\ books[response'.book].is_processed
         /\ OverBudget(response'.user))
          => response'.outcome = "402"
     /\ (Returned /\ response'.outcome = "402")
          => /\ nReqs' # nReqs
             /\ OverBudget(response'.user)
             /\ ~response'.retrieved
             /\ ~response'.generated
             /\ UNCHANGED <<chats, usage, subs>>]_vars

C15_Witness ==
  /\ response.outcome = "402"
  /\ OverBudget(response.user)
  /\ subs[response.user] <= FREE_TIER_TOKEN_LIMIT
  /\ FindBook(response.user, response.book)

\* The rows of session sid, oldest first.
SessionRows(sid) ==
  SelectSeq([i \in 1..Len(chats) |-> i], LAMBDA i : chats[i].session_id = sid)

\* C16: the history that a new chat request on a session passes to the model
\* is the messages of the 3 most recently created Chat rows of the session
\* (of all its rows when there are fewer), oldest first.
C16_HistoryIsLastThree ==
  [][\A r \in Slots :
       (Moved(r) /\ reqs[r] = NoRequest)
       => HistoryMessages(reqs'[r].history)
            = conversation_history(LastOf(SessionRows(reqs'[r].session), 3))]_vars

\* The step ended run by an exception.
Failed(run) ==
  /\ runs' = runs (-) SetToBag({run})
  /\ taskResult'.state \in {"RETRY", "FAILURE"}
  /\ taskResult'.book = run.book
  /\ taskResult'.retries = run.retries

EndedInError(run) ==
  /\ runs' = runs (-) SetToBag({run})
  /\ taskResult'.state # "none"
  /\ taskResult'.book = run.book
  /\ taskResult'.retries = run.retries
  /\ taskResult'.error # "None"

Completed(run) ==
  /\ run.pc = "embedded"
  /\ runs' = runs (-) SetToBag({run})
  /\ taskResult' = TaskResult(run, "SUCCESS", "None")

\* Chunks of run's document whose embedding raised in this run.
FailedChunks(run) == NumChunks(books[run.book].file_hash) - run.total

Reprocess == nReprocess' = nReprocess + 1

\* C20: a reprocess request for a Book whose processing_status is
\* "processing" leaves the Book as it is (it is not moved to pending) and
\* puts no second run on the way.
C20_ReprocessWhileProcessing ==
  [][Reprocess =>
       /\ \A b \in BookIds :
            (books[b] # NoBook /\ books[b].processing_status = "processing")
              => books'[b] = books[b]
       /\ queue' = queue]_vars


\* C21: a reprocess request on a failed Book resets processing_error to
\* empty and total_chunks to 0: the Book it leaves in pending carries no
\* error detail and no chunk count of the run before.
C21_ReprocessResets ==
  [][Reprocess =>
       \A b \in BookIds :
         (/\ books[b] # NoBook
          /\ books[b].processing_status = "failed"
          /\ books'[b].processing_status = "pending")
           => /\ books'[b].processing_error = "None"
              /\ books'[b].total_chunks = 0]_vars


C23_RetryableRetriedOnce ==
  (response.outcome = "500" /\ response.generated) =>
    /\ response.failure \in Retryable => response.attempts = 2
    /\ response.failure \in Fatal => response.attempts = 1


\* The step stores the exchange of the request in slot r.
Persists(r) ==
  /\ reqs[r].pc = "persist"
  /\ chats' = Append(chats, Chat(reqs[r]))

\* C24: chat requests on one session are serialized: the history a request
\* loaded is the history of its session at the moment its own exchange is
\* stored, i.e. no other request stored an exchange of the session in
\* between.
C24_SessionSerialized ==
  [][\A r \in Slots :
       Persists(r) =>
         reqs[r].history
           = conversation_history(PastChats(reqs[r].session))]_vars


\* The step deletes Book b.
Deletes(b) == books[b] # NoBook /\ books'[b] = NoBook

\* C25: deleting a Book removes collection book_<id> with all its segments,
\* and a Book in processing is not deleted while its ingestion run is
\* active.
C25_DeleteCascades ==
  [][\A b \in BookIds :
       Deletes(b) =>
         /\ ~collections'[b].exists
         /\ ~(Status(b) = "processing" /\ ActiveRuns(b) > 0)]_vars


\* The step is the create call of run's create_book_collection.
Creates(run) ==
  /\ run.pc = "creating"
  /\ CopiesIn(run, runs') < CopiesIn(run, runs)

RECURSIVE ChatTokens(_, _)
ChatTokens(u, n) ==
  IF n = 0 THEN 0
  ELSE ChatTokens(u, n - 1)
       + (IF chats[n].user_id = u THEN chats[n].tokens_used ELSE 0)

\* C28: token deductions are never lost: a user's tokens_used is the sum of
\* tokens_used over the user's committed Chat rows (every period starts with
\* both at 0).
C28_NoLostDeduction ==
  \A u \in Users : subs[u] = ChatTokens(u, Len(chats))


\* C29: the history loaded for a request holds only exchanges of the
\* requesting user, and all Chat rows of one session belong to one user.
C29_HistoryOfRequester ==
  /\ \A r \in Slots :
       reqs[r] # NoRequest =>
         \A i \in 1..Len(reqs[r].history) :
           chats[reqs[r].history[i].content].user_id = reqs[r].user
  /\ \A i, j \in 1..Len(chats) :
       chats[i].session_id = chats[j].session_id
         => chats[i].user_id = chats[j].user_id


\* C30: at most one Book row exists for an owner and a file hash.
C30_OneBookPerFile ==
  \A a, b \in BookIds :
    (/\ books[a] # NoBook /\ books[b] # NoBook
     /\ books[a].owner_id = books[b].owner_id
     /\ books[a].file_hash = books[b].file_hash)
      => a = b

====
